---------------------------- MODULE Spec2Model ----------------------------
(***************************************************************************)
(* Model of package fastuuid: a Generator that hands out 24-byte           *)
(* identifiers made of a random seed and an advancing counter.             *)
(*                                                                         *)
(* Two implementations of the Generator are in the source tree:            *)
(*   - the atomic Generator (uuid.go): seed + one uint64 counter advanced   *)
(*     by atomic.AddUint64;                                                 *)
(*   - the pooled Generator (unnamed/part_000): seed + base0/base1 under a  *)
(*     mutex, and a sync.Pool of 16-bit block counters.                     *)
(* The variable impl says which of the two a behaviour runs.               *)
(*                                                                         *)
(* A uint64 is kept at its full width as four 16-bit limbs, most           *)
(* significant first: <<w3, w2, w1, w0>> stands for                        *)
(* w3*2^48 + w2*2^32 + w1*2^16 + w0.  A byte array is a sequence of        *)
(* numbers 0..255, element i+1 of the sequence being Go's index i.         *)
(***************************************************************************)
EXTENDS Integers, Sequences, FiniteSets

(* ------------------------------ bounds -------------------------------- *)

\* Number of concurrent callers of Next.
NumThreads == 2

\* Number of Next calls the callers issue between them.
MaxCalls == 2

Threads == 1..NumThreads

(* --------------------------- byte arithmetic -------------------------- *)

Byte == 0..255

\* 2^16, the size of one limb of a uint64 and of the uint16 counter fields.
Limb == 256 * 256

Zero64 == <<0, 0, 0, 0>>

Zero24 == [i \in 1..24 |-> 0]

\* binary.LittleEndian.Uint64(b): b[0] is the least significant byte.
LittleEndianUint64(b) ==
    << b[7] + 256 * b[8], b[5] + 256 * b[6], b[3] + 256 * b[4], b[1] + 256 * b[2] >>

\* PutUint64 in big-endian order: the most significant byte first.
BigEndianPutUint64(x) ==
    << x[1] \div 256, x[1] % 256, x[2] \div 256, x[2] % 256,
       x[3] \div 256, x[3] % 256, x[4] \div 256, x[4] % 256 >>

\* binary.LittleEndian.PutUint64(buf, x): the 8 bytes written, buf[0] first.
LittleEndianPutUint64(x) ==
    << x[4] % 256, x[4] \div 256, x[3] % 256, x[3] \div 256,
       x[2] % 256, x[2] \div 256, x[1] % 256, x[1] \div 256 >>

\* x + k on uint64 for 0 <= k < 2^16, wrapping modulo 2^64.
AddUint64Small(x, k) ==
    LET s4 == x[4] + k
        s3 == x[3] + (s4 \div Limb)
        s2 == x[2] + (s3 \div Limb)
        s1 == x[1] + (s2 \div Limb)
    IN  << s1 % Limb, s2 % Limb, s3 % Limb, s4 % Limb >>

\* The largest uint64, 2^64 - 1.
Max64 == << Limb - 1, Limb - 1, Limb - 1, Limb - 1 >>

\* x + y on uint64, wrapping modulo 2^64.
AddUint64(x, y) ==
    LET s4 == x[4] + y[4]
        s3 == x[3] + y[3] + (s4 \div Limb)
        s2 == x[2] + y[2] + (s3 \div Limb)
        s1 == x[1] + y[1] + (s2 \div Limb)
    IN  << s1 % Limb, s2 % Limb, s3 % Limb, s4 % Limb >>

\* x - k on uint64 for 0 <= k < 2^16, wrapping modulo 2^64.
SubUint64Small(x, k) ==
    LET d4 == x[4] - k
        b4 == IF d4 < 0 THEN 1 ELSE 0
        d3 == x[3] - b4
        b3 == IF d3 < 0 THEN 1 ELSE 0
        d2 == x[2] - b3
        b2 == IF d2 < 0 THEN 1 ELSE 0
        d1 == x[1] - b2
    IN  << d1 % Limb, d2 % Limb, d3 % Limb, d4 % Limb >>

\* x < k on uint64 for 0 <= k < 2^16.
LessUint64Small(x, k) == x[1] = 0 /\ x[2] = 0 /\ x[3] = 0 /\ x[4] < k

(* ------------------------- the random source -------------------------- *)

\* The byte sequence of the repository's test: buf[i] = byte(i) + 1.
TestBytes == [i \in 1..24 |-> i]

\* First 8 bytes fe ff ff ff ff ff ff ff: the counter starts at 2^64 - 2.
WrapBytes == [i \in 1..24 |-> IF i = 1 THEN 254 ELSE IF i <= 8 THEN 255 ELSE 40 + i]

\* First 8 bytes ff ff 00 ...: the first increment carries out of the low limb.
CarryBytes == [i \in 1..24 |-> IF i <= 2 THEN 255 ELSE IF i <= 8 THEN 0 ELSE 200 - i]

\* First 8 bytes all ff: the counter starts at 2^64 - 1.
MaxBytes == [i \in 1..24 |-> IF i <= 8 THEN 255 ELSE 3 * i]

\* What rand.Read can do: fail, or fill the 24 bytes.
RandOutcomes ==
    { [ok |-> FALSE, b |-> Zero24] } \cup
    { [ok |-> TRUE, b |-> s] : s \in {TestBytes, WrapBytes, CarryBytes, MaxBytes} }

(* ------------------------ atomic Generator ---------------------------- *)

\* NewGenerator that forgets to copy the seed's first 8 bytes into counter.
NewGeneratorOpNoCounter(r) ==
    IF ~r.ok
    THEN [err |-> TRUE, nil |-> TRUE, seed |-> Zero24, counter |-> Zero64]
    ELSE [err |-> FALSE, nil |-> FALSE, seed |-> r.b, counter |-> Zero64]

\* NewGenerator that hands back &g together with the error.
NewGeneratorOpKeepsG(r) ==
    IF ~r.ok
    THEN [err |-> TRUE, nil |-> FALSE, seed |-> Zero24, counter |-> Zero64]
    ELSE [err |-> FALSE, nil |-> FALSE, seed |-> r.b,
          counter |-> LittleEndianUint64(SubSeq(r.b, 1, 8))]

\* NewGenerator (uuid.go) as a function of the random source's outcome.
NewGeneratorOp(r) ==
    IF ~r.ok
    THEN [err |-> TRUE, nil |-> TRUE, seed |-> Zero24, counter |-> Zero64]
    ELSE [err |-> FALSE, nil |-> FALSE, seed |-> r.b,
          counter |-> LittleEndianUint64(SubSeq(r.b, 1, 8))]

\* MustNewGenerator that drops the error instead of panicking.
MustNewGeneratorOpNoPanic(r) ==
    LET res == NewGeneratorOp(r)
    IN  [panic |-> FALSE, nil |-> res.nil, seed |-> res.seed, counter |-> res.counter]

\* MustNewGenerator (uuid.go): NewGenerator, with an error turned into a panic.
MustNewGeneratorOp(r) ==
    LET res == NewGeneratorOp(r)
    IN  [panic |-> res.err, nil |-> res.nil, seed |-> res.seed, counter |-> res.counter]

\* An increment that is lost: the counter keeps its value.
AtomicAddUint64Lost(cnt) == AddUint64Small(cnt, 0)

\* An increment by 2 instead of 1.
AtomicAddUint64Two(cnt) == AddUint64Small(cnt, 2)

\* An increment that stops at the largest value instead of wrapping.
AtomicAddUint64Saturating(cnt) == IF cnt = Max64 THEN cnt ELSE AddUint64Small(cnt, 1)

\* An increment that goes the wrong way: the counter is decremented.
AtomicAddUint64Down(cnt) == SubUint64Small(cnt, 1)

\* atomic.AddUint64(&g.counter, 1): the new value, stored and returned.
AtomicAddUint64(cnt) == AddUint64Small(cnt, 1)

\* Next writing x into uuid[8:16] instead of uuid[:8].
ComposeUUIDShifted(sd, x) == SubSeq(sd, 1, 8) \o LittleEndianPutUint64(x) \o SubSeq(sd, 17, 24)

\* uuid aliasing g.seed (a slice of it): the write of x lands in the seed.
SeedAfterNextAliased(sd, x) == LittleEndianPutUint64(x) \o SubSeq(sd, 9, 24)

\* g.seed after "uuid := g.seed; PutUint64(uuid[:8], x)": the assignment
\* copies the array, so the write of x goes to the copy.
SeedAfterNext(sd, x) == sd

\* The identifier Next composes from its copy of the seed and x.
ComposeUUID(sd, x) == LittleEndianPutUint64(x) \o SubSeq(sd, 9, 24)

(* ------------------------ pooled Generator ---------------------------- *)

\* const step (part_000): the number of counter values in one block.
step == 32768

\* Bitwise exclusive or of two numbers of k bits.
RECURSIVE XorBits(_, _, _)
XorBits(a, b, k) ==
    IF k = 0 THEN 0
    ELSE ((a + b) % 2) + 2 * XorBits(a \div 2, b \div 2, k - 1)

\* Go's ^ on two bytes.
XorByte(a, b) == XorBits(a, b, 8)

\* xorBytesUint64(into, n): into with its first 8 bytes XORed with the
\* little-endian bytes of n; the rest of the slice is left alone.
xorBytesUint64(into, n) ==
    [i \in 1..Len(into) |->
        IF i <= 8 THEN XorByte(into[i], LittleEndianPutUint64(n)[i]) ELSE into[i]]

\* The pooled NewGenerator (part_000): the seed is drawn, base0 and base1
\* keep their zero values and the pool starts empty.
PoolNewGeneratorOp(r) ==
    IF ~r.ok
    THEN [err |-> TRUE, nil |-> TRUE, seed |-> Zero24]
    ELSE [err |-> FALSE, nil |-> FALSE, seed |-> r.b]

\* The pooled MustNewGenerator (part_000).
PoolMustNewGeneratorOp(r) ==
    LET res == PoolNewGeneratorOp(r)
    IN  [panic |-> res.err, nil |-> res.nil, seed |-> res.seed]

\* The counter newCounter builds from the Generator's seed sd, the block
\* start n, the block end limit and the new base1.
\*   c := &counter{seed: g.seed, n: uint16(n & 0xffff), limit: uint16(limit & 0xffff)}
\*   xorBytesUint64(c.seed[:], n)
\*   c.seed[0] = g.seed[0]; c.seed[1] = g.seed[1]
\*   xorBytesUint64(c.seed[8:], g.base1)
\* Each statement's value is bound as the element of a one-element set, so
\* that it is computed once.
MakeCounter(sd, n, limit, nb1) ==
    CHOOSE c \in
        { [n |-> n[4], limit |-> limit[4], seed |-> s3] :
            s3 \in { SubSeq(s2, 1, 8) \o xorBytesUint64(SubSeq(s2, 9, 24), nb1) :
                s2 \in { [s1 EXCEPT ![1] = sd[1], ![2] = sd[2]] :
                    s1 \in { xorBytesUint64(sd, n) } } } } : TRUE

\* g.base0 = limit
StoreBase0(b0, limit) == limit

\* newCounter that forgets g.base0 = limit: every counter gets the same block.
newCounterOpSameBlock(sd, b0, b1) ==
    CHOOSE r \in
        { [base0 |-> b0, base1 |-> b1, c |-> MakeCounter(sd, n, limit, b1)] :
            n \in { SubUint64Small(limit, step) : limit \in { AddUint64Small(b0, step) } },
            limit \in { AddUint64Small(b0, step) } } : TRUE

\* newCounter without the overflow branch: g.base1 is never incremented.
newCounterOpNoCarry(sd, b0, b1) ==
    CHOOSE r \in
        { [base0 |-> StoreBase0(b0, limit), base1 |-> b1,
           c |-> MakeCounter(sd, n, limit, b1)] :
            n \in { SubUint64Small(limit, step) : limit \in { AddUint64Small(b0, step) } },
            limit \in { AddUint64Small(b0, step) } } : TRUE

\* newCounter's body, run with g.mu held: the new base0 and base1 and the
\* counter it returns, from the Generator's seed, base0 and base1.
\*   limit := g.base0 + step; g.base0 = limit
\*   if limit < step { g.base1++ }
\*   n := limit - step
newCounterOp(sd, b0, b1) ==
    CHOOSE r \in
        { [base0 |-> StoreBase0(b0, limit), base1 |-> nb1,
           c |-> MakeCounter(sd, n, limit, nb1)] :
            n \in { SubUint64Small(limit, step) : limit \in { AddUint64Small(b0, step) } },
            nb1 \in { IF LessUint64Small(limit, step) THEN AddUint64Small(b1, 1) ELSE b1 :
                        limit \in { AddUint64Small(b0, step) } },
            limit \in { AddUint64Small(b0, step) } } : TRUE

\* newCounter without the deferred Unlock: g.mu stays with caller t.
UnlockForgotten(t) == t

\* defer g.mu.Unlock() in newCounter, run by caller t: the new value of g.mu.
Unlock(t) == 0

\* n := c.n + 1 on uint16.
NextN(c) == (c.n + 1) % Limb

\* The identifier the pooled Next returns for counter seed cs and local n:
\* uuid[0] ^= byte(n); uuid[1] ^= byte(n >> 8).
PoolComposeUUID(cs, n) ==
    [cs EXCEPT ![1] = XorByte(cs[1], n % 256), ![2] = XorByte(cs[2], (n \div 256) % 256)]

(* ----------------------- Hex128 and ValidHex128 ----------------------- *)

\* A string is the sequence of its bytes.  '-' and the digits of lowercase
\* hexadecimal, "0123456789abcdef".
Hyphen == 45

hextable == << 48, 49, 50, 51, 52, 53, 54, 55, 56, 57, 97, 98, 99, 100, 101, 102 >>

\* Two hexadecimal digits for each byte, high nibble first (hex.Encode).
RECURSIVE HexEncode(_)
HexEncode(bs) ==
    IF bs = << >> THEN << >>
    ELSE << hextable[(Head(bs) \div 16) + 1], hextable[(Head(bs) % 16) + 1] >>
             \o HexEncode(Tail(bs))

\* The marker nibbles written at the version and variant positions.
VersionNibble == 4

VariantNibble == 8

\* Hex128 without the exchange of bytes 6 and 9.
Hex128Unswapped(uuid) ==
    LET b == [i \in 1..16 |->
                 IF i = 7 THEN 16 * VersionNibble + (uuid[7] % 16)
                 ELSE IF i = 9 THEN 16 * VariantNibble + (uuid[9] % 16)
                 ELSE uuid[i]]
    IN  HexEncode(SubSeq(b, 1, 4)) \o << Hyphen >> \o HexEncode(SubSeq(b, 5, 6))
            \o << Hyphen >> \o HexEncode(SubSeq(b, 7, 8)) \o << Hyphen >>
            \o HexEncode(SubSeq(b, 9, 10)) \o << Hyphen >> \o HexEncode(SubSeq(b, 11, 16))

\* Hex128(uuid): the first 16 bytes, bytes 6 and 9 exchanged, the high
\* nibbles of bytes 6 and 8 overwritten by the markers, rendered 8-4-4-4-12.
Hex128(uuid) ==
    LET b == [i \in 1..16 |->
                 IF i = 7 THEN 16 * VersionNibble + (uuid[10] % 16)
                 ELSE IF i = 10 THEN uuid[7]
                 ELSE IF i = 9 THEN 16 * VariantNibble + (uuid[9] % 16)
                 ELSE uuid[i]]
    IN  HexEncode(SubSeq(b, 1, 4)) \o << Hyphen >> \o HexEncode(SubSeq(b, 5, 6))
            \o << Hyphen >> \o HexEncode(SubSeq(b, 7, 8)) \o << Hyphen >>
            \o HexEncode(SubSeq(b, 9, 10)) \o << Hyphen >> \o HexEncode(SubSeq(b, 11, 16))

\* The positions of the four separators, counted from 1.
Separators == { 9, 14, 19, 24 }

\* A lowercase hexadecimal digit.
isHex(c) == \E k \in 1..Len(hextable) : hextable[k] = c

\* ValidHex128 that also takes upper-case digits 'A'..'F'.
ValidHex128AnyCase(id) ==
    /\ Len(id) = 36
    /\ \A i \in Separators : id[i] = Hyphen
    /\ \A i \in (1..36) \ Separators : isHex(id[i]) \/ isHex(id[i] + 32)

\* ValidHex128(id)
ValidHex128(id) ==
    /\ Len(id) = 36
    /\ \A i \in Separators : id[i] = Hyphen
    /\ \A i \in (1..36) \ Separators : isHex(id[i])

\* The table of TestValidHex128.
validHex128Tests ==
    <<
       [u |-> << 48, 49, 48, 50, 48, 51, 48, 52, 45, 48, 53, 48, 54, 45, 48, 55, 48, 56,
                45, 48, 57, 48, 97, 45, 48, 98, 48, 99, 48, 100, 48, 101, 48, 102, 49, 48 >>,
        valid |-> TRUE],
       [u |-> << 48, 49, 48, 50, 48, 51, 48, 52, 45, 48, 53, 48, 54, 45, 48, 55, 48, 56,
                45, 48, 57, 48, 97, 45, 48, 98, 48, 99, 48, 100, 48, 101, 48, 102, 49 >>,
        valid |-> FALSE],
       [u |-> << 48, 49, 48, 50, 48, 51, 48, 52, 51, 48, 53, 48, 54, 45, 48, 55, 48, 56,
                45, 48, 57, 48, 97, 45, 48, 98, 48, 99, 48, 100, 48, 101, 48, 102, 49 >>,
        valid |-> FALSE],
       [u |-> << 48, 49, 48, 50, 48, 51, 48, 52, 45, 48, 53, 48, 54, 51, 48, 55, 48, 56,
                45, 48, 57, 48, 97, 45, 48, 98, 48, 99, 48, 100, 48, 101, 48, 102, 49 >>,
        valid |-> FALSE],
       [u |-> << 48, 49, 48, 50, 48, 51, 48, 52, 45, 48, 53, 48, 54, 45, 48, 55, 48, 56,
                52, 48, 57, 48, 97, 45, 48, 98, 48, 99, 48, 100, 48, 101, 48, 102, 49 >>,
        valid |-> FALSE],
       [u |-> << 48, 49, 48, 50, 48, 51, 48, 52, 45, 48, 53, 48, 54, 45, 48, 55, 48, 56,
                45, 48, 57, 48, 97, 53, 48, 98, 48, 99, 48, 100, 48, 101, 48, 102, 49 >>,
        valid |-> FALSE],
       [u |-> << 48, 49, 48, 50, 48, 51, 48, 52, 45, 48, 53, 48, 54, 45, 48, 55, 48, 56,
                45, 48, 57, 48, 97, 45, 48, 98, 48, 99, 48, 100, 48, 101, 48, 102, 49 >>,
        valid |-> FALSE],
       [u |-> << 48, 49, 48, 50, 48, 51, 48, 52, 45, 48, 53, 48, 54, 45, 48, 55, 48, 56,
                45, 48, 57, 48, 97, 45, 48, 98, 48, 99, 48, 100, 48, 101, 48, 102, 49, 48,
                50 >>,
        valid |-> FALSE],
       [u |-> << 48, 49, 48, 50, 48, 51, 48, 52, 45, 48, 53, 48, 54, 45, 48, 55, 48, 56,
                45, 48, 57, 48, 97, 45, 48, 98, 48, 99, 48, 100, 48, 101, 48, 102, 49, 47 >>,
        valid |-> FALSE]
    >>

\* The result TestHex128 wants for the bytes 01 02 .. 18.
TestHex128Want ==
    << 48, 49, 48, 50, 48, 51, 48, 52, 45, 48, 53, 48, 54, 45, 52, 97, 48, 56,
       45, 56, 57, 48, 55, 45, 48, 98, 48, 99, 48, 100, 48, 101, 48, 102, 49, 48 >>

\* A valid string, and the characters tried in its place: '-', digits,
\* lowercase and upper-case letters on both sides of the hex range, and
\* the neighbours of the digit ranges in ASCII.
ValidBase == validHex128Tests[1].u

TryChars == { 45, 48, 57, 97, 102, 103, 65, 70, 71, 47, 58, 96, 32 }

\* The bytes tried in place of one byte of an identifier.
TryBytes == { 0, 255, 165, 90 }

\* The identifiers handed to Hex128.
Hex128Inputs ==
    { TestBytes, Zero24, MaxBytes }
        \cup { [TestBytes EXCEPT ![i] = v] : i \in 1..24, v \in TryBytes }

\* The strings handed to ValidHex128, each with how it was made.
ValidHex128Inputs ==
    { [kind |-> "table", s |-> validHex128Tests[k].u, i |-> k, c |-> 0] :
          k \in 1..Len(validHex128Tests) }
        \cup { [kind |-> "replace", s |-> [ValidBase EXCEPT ![i] = c], i |-> i, c |-> c] :
                  i \in 1..36, c \in TryChars }
        \cup { [kind |-> "drop", s |-> SubSeq(ValidBase, 1, i - 1) \o SubSeq(ValidBase, i + 1, 36),
                 i |-> i, c |-> 0] : i \in 1..36 }
        \cup { [kind |-> "append", s |-> Append(ValidBase, c), i |-> 37, c |-> c] :
                  c \in TryChars }

(* ----------------------------- the state ------------------------------ *)

VARIABLES
    impl,      \* "atomic" (uuid.go) or "pooled" (part_000)
    origin,    \* "new": followed from construction; "aged": a pooled
               \* Generator met later in its life (see AgedInit)
    rnd,       \* what the random source does when the seed is read
    ctor,      \* the constructor that was called, "none" before the call
    result,    \* "none" before the constructor ends, then "return" or "panic"
    err,       \* whether the constructor returned a non-nil error
    gnil,      \* whether the constructor returned no Generator (nil)
    seed,      \* g.seed
    counter,   \* g.counter (atomic Generator)
    base0,     \* g.base0 (pooled Generator)
    base1,     \* g.base1 (pooled Generator)
    mu,        \* g.mu: 0 when free, else the caller that holds it
    pool,      \* g.pool: the counters a Get may return
    nalloc,    \* number of counters allocated so far (tells objects apart)
    pc,        \* each caller's position in Next
    xloc,      \* each caller's local x (atomic Next)
    cloc,      \* each caller's local c (pooled Next)
    uloc,      \* each caller's local uuid (pooled Next)
    calls,     \* number of Next calls each caller has started
    returned,  \* the identifiers returned so far, in order of return
    overlap,   \* whether some Next call started while another was running
    issued,    \* the values of x in the order the atomic increments took effect
    before,    \* per caller: how many identifiers had been returned when its
               \* latest Next call started
    blocks,    \* what each newCounter call computed, in order
    other,     \* a second Generator of uuid.go and its one caller
    hex        \* the latest call of Hex128 or ValidHex128 and its result

vars == << impl, origin, rnd, ctor, result, err, gnil, seed, counter, base0, base1, mu,
           pool, nalloc, pc, xloc, cloc, uloc, calls, returned, overlap,
           issued, before, blocks, other, hex >>

genVars == << seed, counter, base0, base1, mu, pool, nalloc >>

callVars == << pc, xloc, cloc, uloc, calls, returned, overlap >>

\* What no operation on the Generator g touches.
envVars == << impl, origin, rnd, other, hex >>

setupVars == << envVars, issued, before, blocks >>

ctorVars == << ctor, result, err, gnil >>

\* Next may be called once a constructor has returned a Generator.
Constructed == result = "return" /\ ~gnil

\* The value of a caller's c while it holds no counter.
NoCounter == [id |-> 0, n |-> 0, limit |-> 0, seed |-> Zero24]

\* No second Generator.
NoOther == [made |-> FALSE, seed |-> Zero24, counter |-> Zero64, pc |-> "idle",
            x |-> Zero64, calls |-> 0, returned |-> << >>]

\* No call of Hex128 or ValidHex128 yet.
NoInput == [kind |-> "none", s |-> << >>, i |-> 0, c |-> 0]

NoHex == [op |-> "none", in |-> << >>, out |-> << >>, ok |-> FALSE, made |-> NoInput]

\* The zero-valued Generator and idle callers.
Blank ==
    /\ seed = Zero24
    /\ counter = Zero64
    /\ base0 = Zero64
    /\ base1 = Zero64
    /\ mu = 0
    /\ pool = {}
    /\ nalloc = 0
    /\ pc = [t \in Threads |-> "idle"]
    /\ xloc = [t \in Threads |-> Zero64]
    /\ cloc = [t \in Threads |-> NoCounter]
    /\ uloc = [t \in Threads |-> Zero24]
    /\ calls = [t \in Threads |-> 0]
    /\ returned = << >>
    /\ overlap = FALSE
    /\ issued = << >>
    /\ before = [t \in Threads |-> 0]
    /\ blocks = << >>

\* Before construction: the random source's behaviour is fixed, no
\* constructor has run.
NewInit ==
    /\ impl \in {"atomic", "pooled"}
    /\ origin = "new"
    /\ rnd \in RandOutcomes
    /\ impl = "pooled" => rnd.b \notin {CarryBytes, MaxBytes}
    /\ ctor = "none"
    /\ result = "none"
    /\ err = FALSE
    /\ gnil = TRUE
    /\ other = NoOther
    /\ hex = NoHex
    /\ Blank

\* base0 values from which an aged Generator made its live counter: the
\* first block, the second block (whose 16-bit limit wraps to 0), and the
\* last block before base0 + step overflows 64 bits.
AgedBases ==
    { Zero64, << 0, 0, 0, step >>, << Limb - 1, Limb - 1, Limb - 1, 0 >> }

\* A pooled Generator later in its life.  Reaching the end of a block takes
\* 32767 Next calls, so such states are entered directly: newCounter made
\* the live counter from base0 = b0 (base1 still 0), and one caller has
\* since drawn all but one of the block's values through Next, the counter
\* going back to the pool each time.  returned holds the identifier of the
\* latest of those calls.
AgedInit ==
    /\ impl = "pooled"
    /\ origin = "aged"
    /\ rnd = [ok |-> TRUE, b |-> TestBytes]
    /\ ctor = "NewGenerator"
    /\ result = "return"
    /\ err = FALSE
    /\ gnil = FALSE
    /\ \E b0 \in AgedBases :
         \E r \in { newCounterOp(rnd.b, b0, Zero64) } :
         \E n \in { (r.c.limit - 2) % Limb } :
             /\ seed = rnd.b
             /\ base0 = r.base0
             /\ base1 = r.base1
             /\ pool = { [id |-> 1, n |-> n, limit |-> r.c.limit, seed |-> r.c.seed] }
             /\ returned = << PoolComposeUUID(r.c.seed, n) >>
             /\ blocks = << r >>
    /\ counter = Zero64
    /\ mu = 0
    /\ nalloc = 1
    /\ pc = [t \in Threads |-> "idle"]
    /\ xloc = [t \in Threads |-> Zero64]
    /\ cloc = [t \in Threads |-> NoCounter]
    /\ uloc = [t \in Threads |-> Zero24]
    /\ calls = [t \in Threads |-> 0]
    /\ overlap = FALSE
    /\ issued = << >>
    /\ before = [t \in Threads |-> 0]
    /\ other = NoOther
    /\ hex = NoHex

Init == NewInit \/ AgedInit

(* --------------------------- construction ----------------------------- *)

\* NewGenerator() of uuid.go.
NewGenerator ==
    /\ impl = "atomic" /\ result = "none"
    /\ LET res == NewGeneratorOp(rnd)
       IN  /\ result' = "return"
           /\ err' = res.err
           /\ gnil' = res.nil
           /\ seed' = res.seed
           /\ counter' = res.counter
    /\ ctor' = "NewGenerator"
    /\ UNCHANGED << setupVars, base0, base1, mu, pool, nalloc, callVars >>

\* MustNewGenerator() of uuid.go.
MustNewGenerator ==
    /\ impl = "atomic" /\ result = "none"
    /\ LET res == MustNewGeneratorOp(rnd)
       IN  /\ result' = IF res.panic THEN "panic" ELSE "return"
           /\ err' = FALSE
           /\ gnil' = res.nil
           /\ seed' = res.seed
           /\ counter' = res.counter
    /\ ctor' = "MustNewGenerator"
    /\ UNCHANGED << setupVars, base0, base1, mu, pool, nalloc, callVars >>

\* NewGenerator() of part_000.
PoolNewGenerator ==
    /\ impl = "pooled" /\ result = "none"
    /\ LET res == PoolNewGeneratorOp(rnd)
       IN  /\ result' = "return"
           /\ err' = res.err
           /\ gnil' = res.nil
           /\ seed' = res.seed
    /\ ctor' = "NewGenerator"
    /\ UNCHANGED << setupVars, counter, base0, base1, mu, pool, nalloc, callVars >>

\* MustNewGenerator() of part_000.
PoolMustNewGenerator ==
    /\ impl = "pooled" /\ result = "none"
    /\ LET res == PoolMustNewGeneratorOp(rnd)
       IN  /\ result' = IF res.panic THEN "panic" ELSE "return"
           /\ err' = FALSE
           /\ gnil' = res.nil
           /\ seed' = res.seed
    /\ ctor' = "MustNewGenerator"
    /\ UNCHANGED << setupVars, counter, base0, base1, mu, pool, nalloc, callVars >>

(* ------------------------- atomic Next (uuid.go) ---------------------- *)

\* Number of Next calls started so far.
RECURSIVE SumCalls(_, _)
SumCalls(f, n) == IF n = 0 THEN 0 ELSE f[n] + SumCalls(f, n - 1)

TotalCalls == SumCalls(calls, NumThreads)

\* Whether a call that starts now overlaps a call of another caller.
Overlaps(t) == \E u \in Threads \ {t} : pc[u] # "idle"

\* Caller t calls g.Next().
NextCall(t) ==
    /\ impl = "atomic" /\ Constructed
    /\ pc[t] = "idle" /\ TotalCalls < MaxCalls
    /\ pc' = [pc EXCEPT ![t] = "add"]
    /\ calls' = [calls EXCEPT ![t] = @ + 1]
    /\ overlap' = (overlap \/ Overlaps(t))
    /\ before' = [before EXCEPT ![t] = Len(returned)]
    /\ UNCHANGED << envVars, issued, blocks, ctorVars, genVars, xloc, cloc, uloc,
                    returned >>

\* x := atomic.AddUint64(&g.counter, 1)
NextAdd(t) ==
    /\ impl = "atomic" /\ pc[t] = "add"
    /\ counter' = AtomicAddUint64(counter)
    /\ xloc' = [xloc EXCEPT ![t] = counter']
    /\ issued' = Append(issued, counter')
    /\ pc' = [pc EXCEPT ![t] = "ret"]
    /\ UNCHANGED << envVars, before, blocks, ctorVars, seed, base0, base1, mu, pool, nalloc,
                    cloc, uloc, calls, returned, overlap >>

\* uuid := g.seed; PutUint64(uuid[:8], x); return uuid
NextReturn(t) ==
    /\ impl = "atomic" /\ pc[t] = "ret"
    /\ returned' = Append(returned, ComposeUUID(seed, xloc[t]))
    /\ seed' = SeedAfterNext(seed, xloc[t])
    /\ pc' = [pc EXCEPT ![t] = "idle"]
    /\ UNCHANGED << setupVars, ctorVars, counter, base0, base1, mu, pool, nalloc,
                    xloc, cloc, uloc, calls, overlap >>

(* ------------------- a second Generator (uuid.go) --------------------- *)

\* A package-level counter shared by every Generator.
CounterAddrGlobal(g) == "g"

\* The word that Next, called on Generator g, increments: &g.counter, a
\* field of the receiver.
CounterAddr(g) == g

\* The seeds the second Generator may have drawn.
OtherSeeds == { TestBytes, WrapBytes }

\* The second Generator, other, was made by NewGenerator and is idle; the
\* first, g, is still to be constructed.
TwoInit ==
    /\ impl = "atomic"
    /\ origin = "new"
    /\ rnd \in RandOutcomes
    /\ ctor = "none"
    /\ result = "none"
    /\ err = FALSE
    /\ gnil = TRUE
    /\ \E b \in OtherSeeds :
         \E res \in { NewGeneratorOp([ok |-> TRUE, b |-> b]) } :
             other = [NoOther EXCEPT !.made = TRUE, !.seed = res.seed,
                                     !.counter = res.counter]
    /\ hex = NoHex
    /\ Blank

\* The caller of the second Generator calls other.Next().
OtherNextCall ==
    /\ impl = "atomic" /\ other.made
    /\ other.pc = "idle" /\ other.calls < MaxCalls
    /\ other' = [other EXCEPT !.pc = "add", !.calls = @ + 1]
    /\ UNCHANGED << impl, origin, rnd, hex, issued, before, blocks, ctorVars, genVars,
                    callVars >>

\* x := atomic.AddUint64(&other.counter, 1)
OtherNextAdd ==
    /\ impl = "atomic" /\ other.pc = "add"
    /\ \E a \in { CounterAddr("other") } :
         \E x \in { AtomicAddUint64(IF a = "g" THEN counter ELSE other.counter) } :
             /\ counter' = IF a = "g" THEN x ELSE counter
             /\ other' = [other EXCEPT !.counter = IF a = "other" THEN x ELSE @,
                                       !.x = x, !.pc = "ret"]
    /\ UNCHANGED << impl, origin, rnd, hex, issued, before, blocks, ctorVars, seed,
                    base0, base1, mu, pool, nalloc, callVars >>

\* uuid := other.seed; PutUint64(uuid[:8], x); return uuid
OtherNextReturn ==
    /\ impl = "atomic" /\ other.pc = "ret"
    /\ other' = [other EXCEPT !.returned = Append(@, ComposeUUID(other.seed, other.x)),
                              !.pc = "idle"]
    /\ UNCHANGED << impl, origin, rnd, hex, issued, before, blocks, ctorVars, genVars,
                    callVars >>

(* ------------------------ pooled Next (part_000) ---------------------- *)

\* Caller t calls g.Next() and reaches g.pool.Get().
PoolNextCall(t) ==
    /\ impl = "pooled" /\ Constructed
    /\ pc[t] = "idle" /\ TotalCalls < MaxCalls
    /\ pc' = [pc EXCEPT ![t] = "get"]
    /\ calls' = [calls EXCEPT ![t] = @ + 1]
    /\ overlap' = (overlap \/ Overlaps(t))
    /\ UNCHANGED << setupVars, ctorVars, genVars, xloc, cloc, uloc, returned >>

\* g.pool.Get() hands out a pooled counter, which leaves the pool.
PoolGet(t, c) ==
    /\ impl = "pooled" /\ pc[t] = "get"
    /\ c \in pool
    /\ pool' = pool \ {c}
    /\ cloc' = [cloc EXCEPT ![t] = c]
    /\ pc' = [pc EXCEPT ![t] = "check"]
    /\ UNCHANGED << setupVars, ctorVars, seed, counter, base0, base1, mu, nalloc,
                    xloc, uloc, calls, returned, overlap >>

\* g.pool.Get() finds nothing it wants to hand out and calls g.pool.New:
\* newCounter starts with g.mu.Lock().
PoolGetNew(t) ==
    /\ impl = "pooled" /\ pc[t] = "get"
    /\ mu = 0
    /\ mu' = t
    /\ pc' = [pc EXCEPT ![t] = "new"]
    /\ UNCHANGED << setupVars, ctorVars, seed, counter, base0, base1, pool, nalloc,
                    xloc, cloc, uloc, calls, returned, overlap >>

\* The body of newCounter and its deferred g.mu.Unlock().
newCounter(t) ==
    /\ impl = "pooled" /\ pc[t] = "new" /\ mu = t
    /\ \E r \in { newCounterOp(seed, base0, base1) } :
           /\ base0' = r.base0
           /\ base1' = r.base1
           /\ nalloc' = nalloc + 1
           /\ cloc' = [cloc EXCEPT ![t] =
                          [id |-> nalloc + 1, n |-> r.c.n, limit |-> r.c.limit,
                           seed |-> r.c.seed]]
           /\ blocks' = Append(blocks, r)
    /\ mu' = Unlock(t)
    /\ pc' = [pc EXCEPT ![t] = "check"]
    /\ UNCHANGED << envVars, issued, before, ctorVars, seed, counter, pool,
                    xloc, uloc, calls, returned, overlap >>

\* n := c.n + 1; n == c.limit: the counter is abandoned, the loop goes on.
PoolExhausted(t) ==
    /\ impl = "pooled" /\ pc[t] = "check"
    /\ NextN(cloc[t]) = cloc[t].limit
    /\ cloc' = [cloc EXCEPT ![t] = NoCounter]
    /\ pc' = [pc EXCEPT ![t] = "get"]
    /\ UNCHANGED << setupVars, ctorVars, genVars, xloc, uloc, calls, returned, overlap >>

\* n := c.n + 1; n != c.limit: c.n = n; uuid = c.seed; g.pool.Put(c);
\* uuid[0] ^= byte(n); uuid[1] ^= byte(n >> 8).
PoolPut(t) ==
    /\ impl = "pooled" /\ pc[t] = "check"
    /\ NextN(cloc[t]) # cloc[t].limit
    /\ LET n == NextN(cloc[t])
       IN  /\ pool' = pool \cup { [cloc[t] EXCEPT !.n = n] }
           /\ uloc' = [uloc EXCEPT ![t] = PoolComposeUUID(cloc[t].seed, n)]
    /\ cloc' = [cloc EXCEPT ![t] = NoCounter]
    /\ pc' = [pc EXCEPT ![t] = "ret"]
    /\ UNCHANGED << setupVars, ctorVars, seed, counter, base0, base1, mu, nalloc,
                    xloc, calls, returned, overlap >>

\* return uuid
PoolReturn(t) ==
    /\ impl = "pooled" /\ pc[t] = "ret"
    /\ returned' = Append(returned, uloc[t])
    /\ pc' = [pc EXCEPT ![t] = "idle"]
    /\ UNCHANGED << setupVars, ctorVars, genVars, xloc, cloc, uloc, calls, overlap >>

\* sync.Pool lets go of a pooled counter (garbage collection).
PoolDrop(c) ==
    /\ impl = "pooled"
    /\ c \in pool
    /\ pool' = pool \ {c}
    /\ UNCHANGED << setupVars, ctorVars, seed, counter, base0, base1, mu, nalloc,
                    callVars >>

(* -------------------------- specification ----------------------------- *)

AtomicNext ==
    \/ NewGenerator
    \/ MustNewGenerator
    \/ \E t \in Threads : NextCall(t)
    \/ \E t \in Threads : NextAdd(t)
    \/ \E t \in Threads : NextReturn(t)

PoolNext ==
    \/ PoolNewGenerator
    \/ PoolMustNewGenerator
    \/ \E t \in Threads : PoolNextCall(t)
    \/ \E t \in Threads : \E c \in pool : PoolGet(t, c)
    \/ \E t \in Threads : PoolGetNew(t)
    \/ \E t \in Threads : newCounter(t)
    \/ \E t \in Threads : PoolExhausted(t)
    \/ \E t \in Threads : PoolPut(t)
    \/ \E t \in Threads : PoolReturn(t)
    \/ \E c \in pool : PoolDrop(c)

Next == AtomicNext \/ PoolNext

\* Both Generators.
Spec == Init /\ [][Next]_vars

\* The steps caller t takes inside a Next call it has started.
Steps(t) ==
    \/ NextAdd(t)
    \/ NextReturn(t)
    \/ \E c \in pool : PoolGet(t, c)
    \/ PoolGetNew(t)
    \/ newCounter(t)
    \/ PoolExhausted(t)
    \/ PoolPut(t)
    \/ PoolReturn(t)

\* The starting states for the check of termination: both Generators
\* before construction, with the random source failing or supplying the
\* test's bytes, and the pooled Generator at the end of its first block.
FairInit ==
    /\ Init
    /\ rnd.b \in {Zero24, TestBytes}
    /\ origin = "aged" => base0 = << 0, 0, 0, step >>

\* Both Generators, with every caller that is inside Next scheduled again
\* and again (Go's scheduler starves no runnable goroutine).
FairSpec == FairInit /\ [][Next]_vars /\ \A t \in Threads : WF_vars(Steps(t))

\* The atomic Generator of uuid.go alone.
AtomicInit == NewInit /\ impl = "atomic"

AtomicSpec == AtomicInit /\ [][AtomicNext]_vars

\* An atomic Generator near the end of a run of 2^64 consecutive Next
\* calls.  Such a run cannot be stepped through, so the state is entered
\* directly: the first call of the run drew x = c0 + 1 and returned, and
\* 2^64 - 2 further calls have each added 1 to the counter.  returned holds
\* the identifier of the first call of the run only; issued starts empty
\* and lists the increments made from here on.
WindowInit ==
    /\ impl = "atomic"
    /\ origin = "aged"
    /\ rnd \in { [ok |-> TRUE, b |-> b] : b \in { TestBytes, WrapBytes, MaxBytes } }
    /\ ctor = "NewGenerator"
    /\ result = "return"
    /\ err = FALSE
    /\ gnil = FALSE
    /\ other = NoOther
    /\ hex = NoHex
    /\ \E res \in { NewGeneratorOp(rnd) } :
         \E first \in { AtomicAddUint64(res.counter) } :
             /\ seed = res.seed
             /\ counter = AddUint64(first, SubUint64Small(Max64, 1))
             /\ returned = << ComposeUUID(res.seed, first) >>
    /\ base0 = Zero64
    /\ base1 = Zero64
    /\ mu = 0
    /\ pool = {}
    /\ nalloc = 0
    /\ pc = [t \in Threads |-> "idle"]
    /\ xloc = [t \in Threads |-> Zero64]
    /\ cloc = [t \in Threads |-> NoCounter]
    /\ uloc = [t \in Threads |-> Zero24]
    /\ calls = [t \in Threads |-> 0]
    /\ overlap = FALSE
    /\ issued = << >>
    /\ before = [t \in Threads |-> 0]
    /\ blocks = << >>

\* The atomic Generator from construction, and near the end of a run of
\* 2^64 calls.
WrapInit == AtomicInit \/ WindowInit

WrapSpec == WrapInit /\ [][AtomicNext]_vars

\* Two Generators of uuid.go side by side, each with its own callers.
TwoNext ==
    \/ AtomicNext
    \/ OtherNextCall
    \/ OtherNextAdd
    \/ OtherNextReturn

TwoSpec == TwoInit /\ [][TwoNext]_vars

\* Hex128(u) is called.
CallHex128(u) ==
    /\ hex' = [op |-> "Hex128", in |-> u, out |-> Hex128(u), ok |-> FALSE, made |-> NoInput]
    /\ UNCHANGED << impl, origin, rnd, other, issued, before, blocks, ctorVars, genVars,
                    callVars >>

\* ValidHex128(a.s) is called.
CallValidHex128(a) ==
    /\ hex' = [op |-> "ValidHex128", in |-> a.s, out |-> << >>, ok |-> ValidHex128(a.s),
               made |-> a]
    /\ UNCHANGED << impl, origin, rnd, other, issued, before, blocks, ctorVars, genVars,
                    callVars >>

\* The two string functions, called again and again on the inputs above.
HexInit == AtomicInit /\ rnd = [ok |-> TRUE, b |-> TestBytes]

HexNext ==
    \/ \E u \in Hex128Inputs : CallHex128(u)
    \/ \E a \in ValidHex128Inputs : CallValidHex128(a)

HexSpec == HexInit /\ [][HexNext]_vars

\* The pooled Generator of part_000 alone.
PoolInit == Init /\ impl = "pooled"

PoolSpec == PoolInit /\ [][PoolNext]_vars

(* ------------------------------ claims -------------------------------- *)

\* The leading 8 bytes and the trailing 16 bytes of an identifier.
Lead(u) == SubSeq(u, 1, 8)

Trail(u) == SubSeq(u, 9, 24)

\* bs + k for little-endian bytes bs, by ripple carry; the carry out of the
\* last byte is dropped, so the sum is modulo 2^(8 * Len(bs)).
RECURSIVE AddToBytes(_, _)
AddToBytes(bs, k) ==
    IF bs = << >> THEN << >>
    ELSE << (Head(bs) + k) % 256 >> \o AddToBytes(Tail(bs), (Head(bs) + k) \div 256)

\* a < b for little-endian byte strings of one length, read as numbers.
LessBytes(a, b) ==
    \E i \in 1..Len(a) : a[i] < b[i] /\ \A j \in (i + 1)..Len(a) : a[j] = b[j]

\* The little-endian bytes of a uint64 held as limbs.
BytesOf(x) == [i \in 1..8 |-> (x[4 - ((i - 1) \div 2)] \div (IF i % 2 = 1 THEN 1 ELSE 256)) % 256]

AllIdle == \A t \in Threads : pc[t] = "idle"

\* C1: atomic Generator: under every interleaving of the callers, the
\* identifiers returned by Next on one Generator are pairwise distinct.
C1_AtomicUnique ==
    impl = "atomic" =>
        \A i, j \in 1..Len(returned) : i # j => returned[i] # returned[j]

\* Two calls that overlapped have both returned.
C1_Witness == impl = "atomic" /\ overlap /\ Len(returned) = 2

\* C2: atomic Generator: with the random source supplying b, the k-th
\* sequential Next call returns the little-endian bytes of
\* (uint64_le(b[0..7]) + k) mod 2^64 followed by b[8..23].
C2_KthSequential ==
    (impl = "atomic" /\ ~overlap) =>
        \A k \in 1..Len(returned) :
            returned[k] = AddToBytes(Lead(rnd.b), k) \o Trail(rnd.b)

\* Two sequential calls have returned on the Generator made from the test's bytes.
C2_Witness ==
    /\ impl = "atomic" /\ ~overlap /\ rnd.b = TestBytes
    /\ Len(returned) = 2
    /\ returned[1][1] = 2 /\ returned[2][1] = 3

\* C3: atomic Generator: once K calls have completed and none is running,
\* the counter is (c0 + K) mod 2^64 and the counter values in the K
\* identifiers are exactly c0+1 .. c0+K, each handed out once.
C3_NoLostUpdate ==
    (impl = "atomic" /\ Constructed /\ AllIdle) =>
        LET K == Len(returned)
        IN  /\ K = TotalCalls
            /\ BytesOf(counter) = AddToBytes(Lead(rnd.b), K)
            /\ { Lead(returned[i]) : i \in 1..K }
                 = { AddToBytes(Lead(rnd.b), i) : i \in 1..K }
            /\ Cardinality({ Lead(returned[i]) : i \in 1..K }) = K

\* Two overlapping calls have completed and no call is running.
C3_Witness == impl = "atomic" /\ AllIdle /\ overlap /\ Len(returned) = 2

\* C4: atomic Generator: every identifier returned has bytes 8..23 equal to
\* bytes 8..23 of the Generator's seed, so two identifiers of one Generator
\* differ at most in their first 8 bytes.
C4_InvariantTail ==
    impl = "atomic" =>
        /\ \A i \in 1..Len(returned) : Trail(returned[i]) = Trail(seed)
        /\ \A i, j \in 1..Len(returned) : Trail(returned[i]) = Trail(returned[j])

\* Two identifiers have been returned and they differ.
C4_Witness ==
    impl = "atomic" /\ Len(returned) = 2 /\ Lead(returned[1]) # Lead(returned[2])

\* C5 as stated: for sequential calls the leading 8 bytes, read as numbers,
\* strictly increase, each being exactly 1 greater than the one before.
C5_StrictlyIncreasing ==
    (impl = "atomic" /\ ~overlap) =>
        \A k \in 2..Len(returned) :
            /\ LessBytes(Lead(returned[k - 1]), Lead(returned[k]))
            /\ Lead(returned[k]) = AddToBytes(Lead(returned[k - 1]), 1)

\* C5 amended: for sequential calls each leading value is the one before
\* plus 1 modulo 2^64, and it is greater than the one before unless the one
\* before is 2^64 - 1, after which the value is 0.
C5_IncreasingModulo ==
    (impl = "atomic" /\ ~overlap) =>
        \A k \in 2..Len(returned) :
            /\ Lead(returned[k]) = AddToBytes(Lead(returned[k - 1]), 1)
            /\ IF Lead(returned[k - 1]) = [i \in 1..8 |-> 255]
               THEN Lead(returned[k]) = [i \in 1..8 |-> 0]
               ELSE LessBytes(Lead(returned[k - 1]), Lead(returned[k]))

\* Two sequential calls have returned, the first with 2^64 - 1.
C5_Witness ==
    /\ impl = "atomic" /\ ~overlap /\ Len(returned) = 2
    /\ Lead(returned[1]) = [i \in 1..8 |-> 255]

\* C6: NewGenerator (uuid.go) returns an error exactly when the random
\* source fails, and then no Generator; otherwise it returns a Generator
\* whose seed is the bytes drawn and whose counter is the little-endian
\* value of seed bytes 0..7 (the counter is looked at before any Next call).
C6_NewGenerator ==
    (impl = "atomic" /\ ctor = "NewGenerator") =>
        /\ result = "return"
        /\ err <=> ~rnd.ok
        /\ err => gnil
        /\ ~err => /\ ~gnil
                   /\ seed = rnd.b
                   /\ TotalCalls = 0 => BytesOf(counter) = Lead(seed)

\* NewGenerator has just returned a Generator made from the bytes fe ff .. ff.
C6_Witness ==
    /\ impl = "atomic" /\ ctor = "NewGenerator" /\ ~err /\ ~gnil
    /\ rnd.b = WrapBytes /\ TotalCalls = 0
    /\ counter = << Limb - 1, Limb - 1, Limb - 1, Limb - 2 >>

\* C7: MustNewGenerator panics exactly when NewGenerator returns an error
\* for the same outcome of the random source; otherwise it returns the
\* Generator NewGenerator returns (same seed, same initial counter), and it
\* never returns nil.
C7_MustNewGenerator ==
    (impl = "atomic" /\ ctor = "MustNewGenerator") =>
        /\ (result = "panic") <=> NewGeneratorOp(rnd).err
        /\ result = "return" =>
              /\ ~gnil
              /\ seed = NewGeneratorOp(rnd).seed
              /\ TotalCalls = 0 => counter = NewGeneratorOp(rnd).counter

\* MustNewGenerator has panicked on a failing random source.
C7_Witness ==
    impl = "atomic" /\ ctor = "MustNewGenerator" /\ result = "panic" /\ ~rnd.ok

\* Every Next call that has started returns.
EveryCallReturns == \A t \in Threads : (pc[t] # "idle") ~> (pc[t] = "idle")

\* Caller t, inside Next, can take no step until another caller has moved.
Blocked(t) == pc[t] # "idle" /\ ~ENABLED Steps(t)

C9_PoolUnique ==
    impl = "pooled" =>
        \A i, j \in 1..Len(returned) : i # j => returned[i] # returned[j]

\* Identifiers have been returned from both sides of a block boundary, by
\* overlapping calls, and two counters have been made since.
C9_Witness ==
    /\ impl = "pooled" /\ origin = "aged" /\ overlap
    /\ Len(returned) = 3 /\ nalloc >= 3
    /\ returned[1][2] # returned[3][2]

\* C10 as stated: pooled Generator made from the bytes b: in every execution
\* the first sequential Next call returns b with byte 0 replaced by
\* b[0] XOR 1, and the second returns b with byte 0 replaced by b[0] XOR 2.
C10_FirstTwoCalls ==
    (impl = "pooled" /\ origin = "new" /\ ~overlap) =>
        /\ Len(returned) >= 1 => returned[1] = [rnd.b EXCEPT ![1] = XorByte(rnd.b[1], 1)]
        /\ Len(returned) >= 2 => returned[2] = [rnd.b EXCEPT ![1] = XorByte(rnd.b[1], 2)]

\* C11 as stated: pooled Generator: bytes 8..23 of every identifier Next
\* returns equal bytes 8..23 of the identifier returned before it (and so
\* of every other one), after any number of Next and newCounter calls.
C11_PoolInvariantTail ==
    impl = "pooled" =>
        \A i \in 1..Len(returned) : \A j \in 1..Len(returned) :
            Trail(returned[i]) = Trail(returned[j])

\* C12: two Generators are independent: a step of Next on one leaves the
\* seed, the counter and the returned identifiers of the other unchanged,
\* and the k-th identifier the second Generator returns is its own seed
\* with k added to the leading 8 bytes, whatever calls ran on the first.
C12_Independent ==
    /\ [](other.made =>
            \A k \in 1..Len(other.returned) :
                other.returned[k] = AddToBytes(Lead(other.seed), k) \o Trail(other.seed))
    /\ [][ /\ (pc' # pc /\ Constructed) => other' = other
           /\ other' # other =>
                  /\ seed' = seed /\ counter' = counter
                  /\ returned' = returned /\ xloc' = xloc ]_vars

\* Both Generators have returned identifiers, the first one's call having
\* run between two calls of the second.
C12_Witness ==
    /\ other.made /\ Constructed
    /\ other.seed # seed
    /\ Len(other.returned) = 1 /\ other.pc = "ret"
    /\ Len(returned) >= 1
    /\ before[1] = 0 /\ other.calls = 2

\* The lowercase hexadecimal digits '0'..'9' and 'a'..'f'.
LowerHexChars == (48..57) \cup (97..102)

\* What the way a string was made says about its validity: the table's
\* own verdict; a valid string stays valid only if a separator is replaced
\* by '-' or a digit by a lowercase hex digit; a string with a character
\* dropped or appended is invalid.
WantValid(a) ==
    CASE a.kind = "table" -> validHex128Tests[a.i].valid
      [] a.kind = "replace" ->
            IF a.i \in {9, 14, 19, 24} THEN a.c = 45 ELSE a.c \in LowerHexChars
      [] OTHER -> FALSE

\* C13: ValidHex128(s) is true exactly when s has 36 characters, '-' at
\* indexes 8, 13, 18 and 23 and a lowercase hex digit everywhere else; a
\* string one digit short, with a separator replaced, with an upper-case
\* or non-hex character, or with a trailing character is rejected, and the
\* table of TestValidHex128 gets the verdicts it wants.
C13_ValidHex128 ==
    hex.op = "ValidHex128" =>
        /\ hex.ok = WantValid(hex.made)
        /\ hex.ok <=>
              /\ Len(hex.in) = 36
              /\ \A i \in 1..Len(hex.in) :
                    IF i \in {9, 14, 19, 24} THEN hex.in[i] = 45
                    ELSE hex.in[i] \in LowerHexChars

\* A valid string whose last digit was replaced by 'F' has been rejected.
C13_Witness ==
    /\ hex.op = "ValidHex128" /\ ~hex.ok
    /\ hex.made.kind = "replace" /\ hex.made.i = 36 /\ hex.made.c = 70

\* The value of a lowercase hex digit.
HexVal(c) == IF c <= 57 THEN c - 48 ELSE c - 87

\* The byte rendered in string s for byte k (counted from 1) of the 16.
Rendered(s, k) ==
    LET pos == IF k <= 4 THEN 2 * k - 1
               ELSE IF k <= 6 THEN 2 * k
               ELSE IF k <= 8 THEN 2 * k + 1
               ELSE IF k <= 10 THEN 2 * k + 2
               ELSE 2 * k + 3
    IN  16 * HexVal(s[pos]) + HexVal(s[pos + 1])

NoWrapBetween(a, b) == \A k \in (a + 1)..b : issued[k] # Zero64

\* x < y for two uint64.
LessUint64(x, y) == LessBytes(BytesOf(x), BytesOf(y))

\* The callers that have incremented the counter and not yet returned.
Holding == { t \in Threads : pc[t] = "ret" }

\* C15: atomic Generator: the values handed out are those of the
\* increments, and if one call's increment took effect before another's
\* its value is the smaller, unless the counter wrapped in between,
\* whatever the order in which the callers arrived or return.
C15_IncrementOrder ==
    impl = "atomic" =>
        /\ \A i \in 1..Len(returned) :
              \E k \in 1..Len(issued) : Lead(returned[i]) = BytesOf(issued[k])
        /\ \A t \in Holding : \E k \in 1..Len(issued) : xloc[t] = issued[k]
        /\ Len(issued) = Len(returned) + Cardinality(Holding)
        /\ \A a \in 1..Len(issued) : \A b \in 1..Len(issued) :
              (a < b /\ NoWrapBetween(a, b)) => LessUint64(issued[a], issued[b])

\* Of two overlapping calls, the one whose increment came second has
\* returned first.
C15_Witness ==
    /\ impl = "atomic" /\ overlap
    /\ Len(issued) = 2 /\ Len(returned) >= 1
    /\ Lead(returned[1]) = BytesOf(issued[2])
    /\ LessUint64(issued[1], issued[2])

\* C16: atomic Generator: no step of a Next call changes the stored seed
\* or anything else of the Generator but the counter, and the counter
\* changes only in the increment step, by 1 modulo 2^64.
C16_OnlyCounterChanges ==
    [][ (impl = "atomic" /\ Constructed /\ pc' # pc) =>
            /\ seed' = seed
            /\ << base0, base1, mu, pool, nalloc, ctorVars >>' =
                   << base0, base1, mu, pool, nalloc, ctorVars >>
            /\ IF \E t \in Threads : pc[t] = "add" /\ pc'[t] = "ret"
               THEN BytesOf(counter') = AddToBytes(BytesOf(counter), 1)
               ELSE counter' = counter ]_vars

\* A call has returned: the counter has left the seed's leading bytes
\* behind, the seed is what the random source supplied.
C16_Witness ==
    /\ impl = "atomic" /\ Constructed
    /\ Len(returned) >= 1
    /\ seed = rnd.b
    /\ BytesOf(counter) # Lead(seed)

C17_WrapsSilently ==
    /\ [](impl = "atomic" =>
            /\ \A t \in Threads : pc[t] = "add" => ENABLED NextAdd(t)
            /\ \A t \in Threads : pc[t] = "ret" => ENABLED NextReturn(t))
    /\ [][ \A t \in Threads :
             /\ (pc[t] = "add" /\ pc'[t] = "ret" /\ counter = Max64) =>
                    (counter' = Zero64 /\ xloc'[t] = Zero64)
             /\ (pc[t] = "ret" /\ pc'[t] = "idle" /\ xloc[t] = Zero64) =>
                    /\ Len(returned') = Len(returned) + 1
                    /\ Lead(returned'[Len(returned')]) = SubSeq(Zero24, 1, 8)
                    /\ Trail(returned'[Len(returned')]) = Trail(seed) ]_vars
    /\ [](origin = "new" =>
            \A i, j \in 1..Len(returned) : i # j => returned[i] # returned[j])
    /\ [](origin = "aged" =>
            /\ \A k \in 1..Len(issued) :
                  (ComposeUUID(seed, issued[k]) = returned[1]) <=> (k = 2)
            /\ \A i, j \in 2..Len(returned) : i # j => returned[i] # returned[j]
            /\ \A i \in 2..Len(returned) :
                  (returned[i] = returned[1]) <=>
                      (Len(issued) >= 2 /\ returned[i] = ComposeUUID(seed, issued[2])))

\* At the end of a run of 2^64 calls that began at counter 2^64 - 1: the
\* last call of the run has returned a different identifier, and the call
\* after it, whose increment wrapped the counter, has returned the first
\* call's identifier, eight zero bytes and the tail.
C17_Witness ==
    /\ impl = "atomic" /\ origin = "aged" /\ rnd.b = MaxBytes
    /\ Len(returned) = 3
    /\ returned[2] # returned[1]
    /\ returned[3] = returned[1]
    /\ Lead(returned[3]) = SubSeq(Zero24, 1, 8)

\* The 64-bit start n of the k-th recorded block, as little-endian bytes:
\* the base0 the call before it stored, or for the first recorded block
\* base0 - step.
BlockStart(k) ==
    IF k = 1 THEN BytesOf(SubUint64Small(blocks[1].base0, step))
    ELSE BytesOf(blocks[k - 1].base0)

\* The local value n that identifier u carries, if it was made from the
\* counter of block k.
LocalValue(u, k) ==
    XorByte(u[1], blocks[k].c.seed[1]) + 256 * XorByte(u[2], blocks[k].c.seed[2])

\* Identifier u was made from the counter of block k: it has the counter's
\* seed but for the two low bytes, and carries one of the local values
\* strictly between the counter's start and its limit.
FromBlock(u, k) ==
    /\ SubSeq(u, 3, 24) = SubSeq(blocks[k].c.seed, 3, 24)
    /\ (LocalValue(u, k) - blocks[k].c.n) % Limb \in 1..(step - 1)

=============================================================================
